---- MODULE Spec2Model ----
(***************************************************************************)
(* The chat application in five parts, each with a specification of its    *)
(* own over the variables it uses:                                         *)
(*   Spec       the completion route POST /api/chat/ai, the guest route    *)
(*              POST /api/chat/guest and the sync proxy, over the          *)
(*              chat_threads / chat_messages tables.  A behaviour follows  *)
(*              one request through its handler, cut at the awaits that    *)
(*              touch the database or the completion stream; the other     *)
(*              requests act on the tables between those steps as the      *)
(*              mutations they perform.  The required secrets are          *)
(*              configured, so getAuth() returns a handle.                 *)
(*   SpecModel  the model a completion request resolves.                   *)
(*   SpecAuth   getEnv / getAuth and the cached auth handle.               *)
(*   SpecGuest  the GuestChat views of one browser and the stored          *)
(*              free-request counter.                                      *)
(*   SpecChat   the AuthenticatedChat view, its sends and its collections; *)
(*              of its buttons the thread list and "New" are followed,     *)
(*              "Delete all chats" is not.                                 *)
(***************************************************************************)
EXTENDS Integers, Sequences, FiniteSets, TLC

\* ------------------------------------------------------------------ bounds
MaxThreads == 2      \* threads ever created (identity values 1..MaxThreads)
MaxRows    == 1      \* chat_messages rows the mutations endpoint inserts
MaxFrags   == 2      \* fragments one upstream completion yields
MaxCalls   == 2      \* requests the guest views send to /api/chat/guest
MaxSends   == 2      \* sends the authenticated view starts

\* ------------------------------------------------------------------ values
Users     == {"alice", "bob"}
NoSession == "anonymous"
Reqs      == {"r1"}

\* An optional value is a sequence of length at most one.
Absent    == <<>>              \* a field the JSON body does not carry
Some(x)   == <<x>>
Malformed == <<>>              \* a body request.json() rejects
NaN       == <<>>              \* Number(undefined)
NoKey     == "unset"
Undefined == <<"undefined">>   \* how a template literal prints undefined
Quote     == "\""

\* Text is a sequence of tokens; the quote character is a token of its own
\* so that JSON escaping is visible.
Frags == {<<"Hi">>, <<" there">>}

Msg(role, content) == [role |-> role, content |-> content]

MessageInputs ==
  { Absent,
    Some(<<>>),
    Some(<<Msg("user", <<"hello">>)>>),
    Some(<<Msg("assistant", <<"hey">>)>>),
    Some(<<Msg("user", <<"hello">>), Msg("assistant", <<"hey">>)>>) }

\* A JSON scalar the client put in threadId: a number or a string.
Num(n) == [type |-> "number", num |-> n, str |-> ""]
Str(s) == [type |-> "string", num |-> 0, str |-> s]

ThreadIdInputs ==
  {Absent} \cup {Some(Num(n)) : n \in {0, -1} \cup (1..MaxThreads)}
           \cup {Some(Str(s)) : s \in {"abc", "1"}}

Bodies ==
  {Malformed}
    \cup {Some(b) : b \in [threadId : ThreadIdInputs, messages : MessageInputs]}

\* A query parameter: its name and its value, a text or a row filter.
Param(name, text, filter) == [name |-> name, text |-> text, filter |-> filter]

\* the filter a client would like to have: the rows of every thread
WideFilter == Some([op |-> "IN", ids |-> 1..MaxThreads])

\* the query strings a client sends to GET /api/chat-messages
QueryInputs ==
  { <<>>,
    <<Param("offset", "-1", Absent)>>,
    <<Param("table", "chat_threads", Absent)>>,
    <<Param("where", "", WideFilter)>>,
    <<Param("where", "", WideFilter), Param("table", "chat_threads", Absent),
      Param("where", "", WideFilter)>> }

VARIABLES
  chat_threads,    \* rows {id, user_id}
  nextThreadId,    \* identity sequence of chat_threads.id
  chat_messages,   \* rows {id, thread_id, role, content}
  nextMessageId,   \* identity sequence of chat_messages.id
  cfKey,           \* ctx.cloudflare.env.OPENROUTER_API_KEY
  envKey,          \* process.env.OPENROUTER_API_KEY
  req,             \* the requests in flight or answered
  electric,        \* requests that reached the replication endpoint
  cfModel,         \* ctx.cloudflare.env.OPENROUTER_MODEL
  envModel,        \* process.env.OPENROUTER_MODEL
  completion,      \* a completion request and the model it resolved
  processEnv,      \* process.env: DATABASE_URL, BETTER_AUTH_SECRET
  cachedAuth,      \* the module-level auth handle
  cachedDbUrl,     \* the module-level database address
  call,            \* a request as far as getAuth() is concerned
  localStorage,    \* the browser's item gen_chat_free_requests
  guest,           \* the GuestChat views, one per tab
  guestCalls,      \* what reached /api/chat/guest, and what completed
  chat             \* the AuthenticatedChat view and its collections

serverVars == <<chat_threads, nextThreadId, chat_messages, nextMessageId,
                cfKey, envKey, req, electric>>
modelVars  == <<cfModel, envModel, completion>>
authVars   == <<processEnv, cachedAuth, cachedDbUrl, call>>
guestVars  == <<localStorage, guest, guestCalls>>
chatVars   == <<chat>>

vars == <<serverVars, modelVars, authVars, guestVars, chatVars>>

\* what the route handlers of the request model never touch
offRequest == <<modelVars, authVars, guestVars, chatVars>>

\* ------------------------------------------------------------ environment
\* part_000: getApiKey, the platform context first, then process.env
getApiKey == IF cfKey # NoKey THEN cfKey ELSE envKey

\* getOpenRouter that builds a provider without a key
getOpenRouter_AlwaysProvider == "openrouter"

\* part_000: getOpenRouter returns null when no key is resolved
getOpenRouter == IF getApiKey = NoKey THEN "null" ELSE "openrouter"

\* ------------------------------------------------------------- pure parts
\* request.json().catch(() => ({}))
ParseBody(b) ==
  IF b = Malformed THEN [threadId |-> Absent, messages |-> Absent] ELSE b[1]

\* Number() of a string: a numeral converts, other text is NaN
StringToNumber(s) ==
  IF s = "1" THEN Some(1) ELSE IF s = "" THEN Some(0) ELSE NaN

\* Number(body.threadId)
Number(x) ==
  IF x = Absent THEN NaN
  ELSE IF x[1].type = "number" THEN Some(x[1].num)
  ELSE StringToNumber(x[1].str)

\* Falsy that takes zero for a thread id
Falsy_NaNOnly(n) == n = NaN

\* !threadId
Falsy(n) == n = NaN \/ n[1] = 0

\* body.messages ?? []
MessagesOf(b) == IF b.messages = Absent THEN <<>> ELSE b.messages[1]

\* LastUserContent without the role filter: the last message of any role
LastUserContent_AnyRole(ms) ==
  IF ms = <<>> THEN Undefined ELSE ms[Len(ms)].content

\* messages.filter((m) => m.role === "user").pop()?.content
RECURSIVE LastUserContent(_)
LastUserContent(ms) ==
  IF ms = <<>> THEN Undefined
  ELSE IF ms[Len(ms)].role = "user" THEN ms[Len(ms)].content
  ELSE LastUserContent(SubSeq(ms, 1, Len(ms) - 1))

\* the template literal of the canned reply
DemoReply(ms) ==
  <<"Demo reply: I received ", Quote>> \o LastUserContent(ms)
    \o <<Quote, ". Configure OPENROUTER_API_KEY for real responses.">>

\* JSON.stringify of a string: quoted, inner quotes escaped
RECURSIVE JsonEscape(_)
JsonEscape(s) ==
  IF s = <<>> THEN <<>>
  ELSE (IF Head(s) = Quote THEN <<"\\", Quote>> ELSE <<Head(s)>>)
         \o JsonEscape(Tail(s))

JsonStringify(s) == <<Quote>> \o JsonEscape(s) \o <<Quote>>

\* `0:${JSON.stringify(reply)}\n`
DataStreamChunk(reply) == <<"0:">> \o JsonStringify(reply) \o <<"\n">>

\* what the demo stream of the completion route enqueues before it closes
AiDemoChunks(ms) == <<DataStreamChunk(DemoReply(ms))>>

\* what the demo stream of the guest route enqueues before it closes
GuestDemoChunks(ms) == <<DemoReply(ms)>>

RECURSIVE Flatten(_)
Flatten(ss) == IF ss = <<>> THEN <<>> ELSE Head(ss) \o Flatten(Tail(ss))

\* --------------------------------------------------------------- database
ThreadIds == {t.id : t \in chat_threads}

\* db.query.chat_threads.findFirst({ where: eq(fields.id, threadId) })
FindFirstThread(threadId) == {t \in chat_threads : t.id = threadId}

\* the threads a user owns
OwnedThreads(user) == {t \in chat_threads : t.user_id = user}

\* ForeignKeyHolds of a column declared without REFERENCES
ForeignKeyHolds_Unchecked(threadId) == TRUE

\* thread_id integer NOT NULL REFERENCES chat_threads(id)
ForeignKeyHolds(threadId) == threadId \in ThreadIds

\* ON DELETE CASCADE: the rows left when the threads `gone` are deleted
OnDeleteCascade(gone) ==
  {m \in chat_messages : m.thread_id \notin {t.id : t \in gone}}

NewMessageRow(threadId, role, content) ==
  [id |-> nextMessageId, thread_id |-> threadId, role |-> role,
   content |-> content]

\* --------------------------------------------------------------- requests
Idle ==
  [kind |-> "idle", pc |-> "idle", session |-> NoSession, body |-> Malformed,
   status |-> 0, chunks |-> <<>>, stream |-> "none", text |-> <<>>,
   query |-> <<>>,
   demo |-> FALSE, sessionRead |-> FALSE, lookedUp |-> FALSE,
   llmCalled |-> FALSE,
   schemaStmts |-> 0, forwarded |-> FALSE, inserts |-> <<>>,
   found |-> {}, upstream |-> "none"]

Answer(r, status) == [req[r] EXCEPT !.status = status, !.pc = "done"]

\* what one db.insert(chat_messages) of request r looked like when it ran
InsertEvent(r, content, accepted) ==
  [content |-> content, accepted |-> accepted,
   owners |-> {t.user_id : t \in
                 FindFirstThread(Number(ParseBody(req[r].body).threadId)[1])},
   chunksBefore |-> Len(req[r].chunks), streamBefore |-> req[r].stream,
   upstreamBefore |-> req[r].upstream]

\* ------------------------------------------- the parts a behaviour leaves out
\* Each specification of this module follows one part of the application and
\* holds the variables of the other parts at the values below.
Tabs == {"t1", "t2"}

NoCompletion == [route |-> "none", bodyModel |-> Absent, pc |-> "none",
                 model |-> ""]

ConfiguredEnv == [DATABASE_URL |-> "pg://a", BETTER_AUTH_SECRET |-> "s3cret"]
NoEnv         == [DATABASE_URL |-> NoKey, BETTER_AUTH_SECRET |-> NoKey]

NoCall == [endpoint |-> "none", cf |-> NoEnv, pc |-> "none", error |-> "",
           served |-> FALSE, cacheBefore |-> Absent, urlBefore |-> "",
           built |-> FALSE, returned |-> Absent]

\* what a render of GuestChat closes over
GuestClosure(input, isLoading, freeRequestsUsed, guestMessages) ==
  [input |-> input, isLoading |-> isLoading,
   freeRequestsUsed |-> freeRequestsUsed, guestMessages |-> guestMessages]

NoSubmit == [stored |-> 0, outcome |-> "none"]

\* the useState initial values of GuestChat, before the view is mounted
GuestUnmounted ==
  [mounted |-> FALSE, input |-> "", isLoading |-> FALSE,
   streamingContent |-> <<>>, guestMessages |-> <<>>, freeRequestsUsed |-> 0,
   showAuthPrompt |-> FALSE, sends |-> <<>>,
   rendered |-> GuestClosure("", FALSE, 0, <<>>), last |-> NoSubmit]

\* what a render of AuthenticatedChat closes over
ChatClosure(input, isLoading, activeThreadId, dbMessages) ==
  [input |-> input, isLoading |-> isLoading,
   activeThreadId |-> activeThreadId, dbMessages |-> dbMessages]

\* the useState initial values of AuthenticatedChat and empty collections
ChatUnmounted ==
  [mounted |-> FALSE, activeThreadId |-> Absent, input |-> "",
   isLoading |-> FALSE, streamingContent |-> <<>>, threads |-> {},
   messages |-> {}, sends |-> <<>>, issued |-> 0,
   newThread |-> Absent,
   rendered |-> ChatClosure("", FALSE, Absent, <<>>)]

ServerAtRest ==
  /\ chat_threads = {}
  /\ nextThreadId = 1
  /\ chat_messages = {}
  /\ nextMessageId = 1
  /\ cfKey = NoKey
  /\ envKey = NoKey
  /\ req = [r \in Reqs |-> Idle]
  /\ electric = {}

ModelAtRest ==
  cfModel = NoKey /\ envModel = NoKey /\ completion = NoCompletion

AuthAtRest ==
  /\ processEnv = ConfiguredEnv
  /\ cachedAuth = Absent
  /\ cachedDbUrl = ""
  /\ call = NoCall

GuestAtRest ==
  /\ localStorage = Absent
  /\ guest = [t \in Tabs |-> GuestUnmounted]
  /\ guestCalls = [issued |-> 0, completed |-> 0]

ChatAtRest == chat = ChatUnmounted

Init ==
  /\ chat_threads = {}
  /\ nextThreadId = 1
  /\ chat_messages = {}
  /\ nextMessageId = 1
  /\ cfKey \in {NoKey, "sk-cf"}
  /\ envKey \in {NoKey, "sk-env"}
  /\ req = [r \in Reqs |-> Idle]
  /\ electric = {}
  /\ ModelAtRest /\ AuthAtRest /\ GuestAtRest /\ ChatAtRest

\* A client sends a request: its session as the validator will resolve it,
\* and its body.
NewRequest(r) ==
  /\ req[r].kind = "idle"
  /\ \E kind \in {"ai", "guest", "sync"}, s \in Users \cup {NoSession},
        b \in Bodies, q \in QueryInputs :
       /\ kind = "sync" => b = Malformed
       /\ kind # "sync" => q = <<>>
       /\ kind = "guest" =>
            ParseBody(b).threadId \in {Absent, Some(Num(1))}
       /\ req' = [req EXCEPT ![r] =
                    [Idle EXCEPT !.kind = kind, !.pc = "start",
                                 !.session = s, !.body = b, !.query = q]]
  /\ UNCHANGED <<chat_threads, nextThreadId, chat_messages, nextMessageId,
                 cfKey, envKey, electric>>
  /\ UNCHANGED offRequest

\* ------------------------------------------------ POST /api/chat/mutations
CreateThread(u) ==
  /\ nextThreadId <= MaxThreads
  /\ chat_threads' = chat_threads \cup {[id |-> nextThreadId, user_id |-> u]}
  /\ nextThreadId' = nextThreadId + 1
  /\ UNCHANGED <<chat_messages, nextMessageId, cfKey, envKey, req, electric>>
  /\ UNCHANGED offRequest

AddMessage(u, t, role) ==
  /\ nextMessageId <= MaxRows
  /\ \E th \in FindFirstThread(t) : th.user_id = u
  /\ chat_messages' =
       chat_messages \cup {NewMessageRow(t, role, <<"hello">>)}
  /\ nextMessageId' = nextMessageId + 1
  /\ UNCHANGED <<chat_threads, nextThreadId, cfKey, envKey, req, electric>>
  /\ UNCHANGED offRequest

\* the caller's threads go, and ON DELETE CASCADE takes their messages
DeleteAllThreads(u) ==
  /\ OwnedThreads(u) # {}
  /\ chat_threads' = chat_threads \ OwnedThreads(u)
  /\ chat_messages' = OnDeleteCascade(OwnedThreads(u))
  /\ UNCHANGED <<nextThreadId, nextMessageId, cfKey, envKey, req, electric>>
  /\ UNCHANGED offRequest

\* ------------------------------------------------------ POST /api/chat/ai
\* !session?.user?.id
AiUnauthorized(session) == session = NoSession

\* !threadId || messages.length === 0
AiBadRequest(b) == Falsy(Number(b.threadId)) \/ MessagesOf(b) = <<>>

\* AiGate with the body read before the session is checked
AiGate_BodyFirst(session, body) ==
  IF AiBadRequest(ParseBody(body)) THEN 400
  ELSE IF AiUnauthorized(session) THEN 401
  ELSE 0

\* the answer the handler gives before it touches the database, 0 for none:
\* the session is checked first, the body is read after it
AiGate(session, body) ==
  IF AiUnauthorized(session) THEN 401
  ELSE IF AiBadRequest(ParseBody(body)) THEN 400
  ELSE 0

\* ThreadForbidden without the owner comparison
ThreadForbidden_ExistsOnly(found, user) == found = {}

\* !thread || thread.user_id !== session.user.id
ThreadForbidden(found, user) == found = {} \/ \A t \in found : t.user_id # user

AiThreadId(r) == Number(ParseBody(req[r].body).threadId)[1]
AiMessages(r) == MessagesOf(ParseBody(req[r].body))

\* getSession, then request.json() and the field check
AiSession(r) ==
  /\ req[r].kind = "ai" /\ req[r].pc = "start"
  /\ req' = [req EXCEPT ![r] =
       IF AiGate(req[r].session, req[r].body) # 0
         THEN [Answer(r, AiGate(req[r].session, req[r].body))
                 EXCEPT !.sessionRead = TRUE]
         ELSE [req[r] EXCEPT !.sessionRead = TRUE, !.pc = "findThread"]]
  /\ UNCHANGED <<chat_threads, nextThreadId, chat_messages, nextMessageId,
                 cfKey, envKey, electric>>
  /\ UNCHANGED offRequest

\* the ownership lookup, then getOpenRouter() picks the branch; in real mode
\* streamText is called and its text stream is returned as the response
AiFindThread(r) ==
  /\ req[r].kind = "ai" /\ req[r].pc = "findThread"
  /\ LET looked == [req[r] EXCEPT !.lookedUp = TRUE,
                                  !.found = FindFirstThread(AiThreadId(r))] IN
     req' = [req EXCEPT ![r] =
       IF ThreadForbidden(FindFirstThread(AiThreadId(r)), req[r].session)
         THEN [looked EXCEPT !.status = 403, !.pc = "done"]
       ELSE IF getOpenRouter = "null"
         THEN [looked EXCEPT !.demo = TRUE, !.pc = "demoInsert"]
       ELSE [looked EXCEPT !.llmCalled = TRUE, !.status = 200,
                           !.stream = "open", !.upstream = "streaming",
                           !.pc = "streaming"]]
  /\ UNCHANGED <<chat_threads, nextThreadId, chat_messages, nextMessageId,
                 cfKey, envKey, electric>>
  /\ UNCHANGED offRequest

\* Insert that keeps one assistant row per thread, replacing what the
\* thread held
Insert_ReplacingThreadRows(r, content, onAccept, onReject) ==
  IF ForeignKeyHolds(AiThreadId(r))
    THEN /\ chat_messages' =
              {m \in chat_messages : m.thread_id # AiThreadId(r)}
                \cup {NewMessageRow(AiThreadId(r), "assistant", content)}
         /\ nextMessageId' = nextMessageId + 1
         /\ req' = [req EXCEPT ![r] =
              [onAccept EXCEPT !.inserts =
                 Append(@, InsertEvent(r, content, TRUE))]]
    ELSE /\ UNCHANGED <<chat_messages, nextMessageId>>
         /\ req' = [req EXCEPT ![r] =
              [onReject EXCEPT !.inserts =
                 Append(@, InsertEvent(r, content, FALSE))]]

\* db.insert(chat_messages).values(...) of request r; a thread_id without
\* its thread is rejected by the foreign key and the insert throws
Insert(r, content, onAccept, onReject) ==
  IF ForeignKeyHolds(AiThreadId(r))
    THEN /\ chat_messages' = chat_messages
              \cup {NewMessageRow(AiThreadId(r), "assistant", content)}
         /\ nextMessageId' = nextMessageId + 1
         /\ req' = [req EXCEPT ![r] =
              [onAccept EXCEPT !.inserts =
                 Append(@, InsertEvent(r, content, TRUE))]]
    ELSE /\ UNCHANGED <<chat_messages, nextMessageId>>
         /\ req' = [req EXCEPT ![r] =
              [onReject EXCEPT !.inserts =
                 Append(@, InsertEvent(r, content, FALSE))]]

\* demo branch: save the canned reply, then answer with a stream that
\* enqueues one chunk and closes
AiDemoInsert(r) ==
  /\ req[r].kind = "ai" /\ req[r].pc = "demoInsert"
  /\ LET reply == DemoReply(AiMessages(r)) IN
     Insert(r, reply,
            [req[r] EXCEPT !.status = 200, !.pc = "done",
                           !.chunks = AiDemoChunks(AiMessages(r)),
                           !.stream = "closed"],
            Answer(r, 500))
  /\ UNCHANGED <<chat_threads, nextThreadId, cfKey, envKey, electric>>
  /\ UNCHANGED offRequest

\* ---------------------------------------------------- POST /api/chat/guest
\* messages.length === 0
GuestBadRequest(b) == MessagesOf(b) = <<>>

\* GuestStart that saves the canned reply under the thread the body names
GuestStart_SavingReply(r) ==
  /\ req[r].kind = "guest" /\ req[r].pc = "start"
  /\ IF GuestBadRequest(ParseBody(req[r].body))
       THEN /\ req' = [req EXCEPT ![r] = Answer(r, 400)]
            /\ UNCHANGED <<chat_messages, nextMessageId>>
     ELSE IF getOpenRouter = "null"
       THEN LET answered ==
                  [req[r] EXCEPT !.demo = TRUE, !.status = 200, !.pc = "done",
                     !.chunks = GuestDemoChunks(AiMessages(r)),
                     !.stream = "closed"] IN
            IF Number(ParseBody(req[r].body).threadId) = NaN
              THEN /\ req' = [req EXCEPT ![r] = answered]
                   /\ UNCHANGED <<chat_messages, nextMessageId>>
              ELSE Insert(r, DemoReply(AiMessages(r)), answered, answered)
     ELSE /\ req' = [req EXCEPT ![r] =
                 [req[r] EXCEPT !.llmCalled = TRUE, !.status = 200,
                                !.stream = "open", !.upstream = "streaming",
                                !.pc = "streaming"]]
          /\ UNCHANGED <<chat_messages, nextMessageId>>
  /\ UNCHANGED <<chat_threads, nextThreadId, cfKey, envKey, electric>>
  /\ UNCHANGED offRequest

\* request.json(), the messages check, then the canned stream or streamText
GuestStart(r) ==
  /\ req[r].kind = "guest" /\ req[r].pc = "start"
  /\ req' = [req EXCEPT ![r] =
       IF GuestBadRequest(ParseBody(req[r].body)) THEN Answer(r, 400)
       ELSE IF getOpenRouter = "null"
         THEN [req[r] EXCEPT !.demo = TRUE, !.status = 200, !.pc = "done",
                 !.chunks = GuestDemoChunks(AiMessages(r)),
                 !.stream = "closed"]
       ELSE [req[r] EXCEPT !.llmCalled = TRUE, !.status = 200,
                           !.stream = "open", !.upstream = "streaming",
                           !.pc = "streaming"]]
  /\ UNCHANGED <<chat_threads, nextThreadId, chat_messages, nextMessageId,
                 cfKey, envKey, electric>>
  /\ UNCHANGED offRequest

\* ------------------------------------------------- the completion stream
\* StreamFragment that saves the text so far at every fragment
StreamFragment_Persisting(r) ==
  /\ req[r].pc = "streaming"
  /\ Len(req[r].chunks) < MaxFrags
  /\ \E f \in Frags :
       LET next == [req[r] EXCEPT !.chunks = Append(@, f), !.text = @ \o f] IN
       IF req[r].kind = "ai"
         THEN Insert(r, next.text, next, next)
         ELSE /\ req' = [req EXCEPT ![r] = next]
              /\ UNCHANGED <<chat_messages, nextMessageId>>
  /\ UNCHANGED <<chat_threads, nextThreadId, cfKey, envKey, electric>>
  /\ UNCHANGED offRequest

\* the upstream yields a fragment: it is relayed to the caller and added to
\* the text the SDK accumulates
StreamFragment(r) ==
  /\ req[r].pc = "streaming"
  /\ Len(req[r].chunks) < MaxFrags
  /\ \E f \in Frags :
       req' = [req EXCEPT ![r].chunks = Append(@, f), ![r].text = @ \o f]
  /\ UNCHANGED <<chat_threads, nextThreadId, chat_messages, nextMessageId,
                 cfKey, envKey, electric>>
  /\ UNCHANGED offRequest

\* the upstream completes: the guest stream closes; the completion route's
\* onFinish is due
StreamEnd(r) ==
  /\ req[r].pc = "streaming"
  /\ req' = [req EXCEPT ![r] =
       IF req[r].kind = "ai"
         THEN [req[r] EXCEPT !.upstream = "finished", !.pc = "onFinish"]
         ELSE [req[r] EXCEPT !.upstream = "finished", !.stream = "closed",
                             !.pc = "done"]]
  /\ UNCHANGED <<chat_threads, nextThreadId, chat_messages, nextMessageId,
                 cfKey, envKey, electric>>
  /\ UNCHANGED offRequest

\* StreamFail that saves what was streamed before the failure
StreamFail_PersistPartial(r) ==
  /\ req[r].pc = "streaming"
  /\ LET failed == [req[r] EXCEPT !.upstream = "failed",
                                  !.stream = "errored", !.pc = "done"] IN
     IF req[r].kind = "ai"
       THEN Insert(r, req[r].text, failed, failed)
       ELSE /\ req' = [req EXCEPT ![r] = failed]
            /\ UNCHANGED <<chat_messages, nextMessageId>>
  /\ UNCHANGED <<chat_threads, nextThreadId, cfKey, envKey, electric>>
  /\ UNCHANGED offRequest

\* the upstream fails: the response stream errors, onFinish is not called
StreamFail(r) ==
  /\ req[r].pc = "streaming"
  /\ req' = [req EXCEPT ![r].upstream = "failed", ![r].stream = "errored",
                        ![r].pc = "done"]
  /\ UNCHANGED <<chat_threads, nextThreadId, chat_messages, nextMessageId,
                 cfKey, envKey, electric>>
  /\ UNCHANGED offRequest

\* AssistantContent that keeps the last fragment only
AssistantContent_LastFragment(r) ==
  IF req[r].chunks = <<>> THEN <<>> ELSE req[r].chunks[Len(req[r].chunks)]

\* content: text, the full text onFinish receives
AssistantContent(r) == req[r].text

\* onFinish({ text }): save the assistant message, then the stream closes
AiOnFinish(r) ==
  /\ req[r].kind = "ai" /\ req[r].pc = "onFinish"
  /\ Insert(r, AssistantContent(r),
            [req[r] EXCEPT !.stream = "closed", !.pc = "done"],
            [req[r] EXCEPT !.stream = "errored", !.pc = "done"])
  /\ UNCHANGED <<chat_threads, nextThreadId, cfKey, envKey, electric>>
  /\ UNCHANGED offRequest

\* -------------------------------------------------- GET /api/chat-messages
\* SyncUnauthorized with the check left out
SyncUnauthorized_Never(session) == FALSE

\* !session?.user?.id
SyncUnauthorized(session) == session = NoSession

SyncSession(r) ==
  /\ req[r].kind = "sync" /\ req[r].pc = "start"
  /\ req' = [req EXCEPT ![r] =
       IF SyncUnauthorized(req[r].session)
         THEN [Answer(r, 401) EXCEPT !.sessionRead = TRUE]
       ELSE [req[r] EXCEPT !.sessionRead = TRUE, !.pc = "ensureTables"]]
  /\ UNCHANGED <<chat_threads, nextThreadId, chat_messages, nextMessageId,
                 cfKey, envKey, electric>>
  /\ UNCHANGED offRequest

\* the two CREATE TABLE IF NOT EXISTS statements; a failure of either is
\* logged and the handler goes on
SyncEnsureTables(r) ==
  /\ req[r].kind = "sync" /\ req[r].pc = "ensureTables"
  /\ \E ran \in 1..2 :
       req' = [req EXCEPT ![r].schemaStmts = ran, ![r].pc = "findThreads"]
  /\ UNCHANGED <<chat_threads, nextThreadId, chat_messages, nextMessageId,
                 cfKey, envKey, electric>>
  /\ UNCHANGED offRequest

\* UserThreadIds with the where clause of findMany left out
UserThreadIds_AllThreads(user) == {t.id : t \in chat_threads}

\* userThreads.map((t) => t.id) over the caller's threads
UserThreadIds(user) ==
  {t.id : t \in {t \in chat_threads : t.user_id = user}}

\* WhereFilter that sets no where parameter for an empty id list
WhereFilter_Unfiltered(threadIds) ==
  IF Cardinality(threadIds) > 0
    THEN Some([op |-> "IN", ids |-> threadIds])
    ELSE Absent

\* the where parameter: `"thread_id" IN (ids)`, or `"thread_id" = -1`
WhereFilter(threadIds) ==
  IF Cardinality(threadIds) > 0
    THEN Some([op |-> "IN", ids |-> threadIds])
    ELSE Some([op |-> "=", ids |-> {-1}])

\* the rows a forwarded shape request selects
ShapeMatches(fwd, row) ==
  fwd.where = Absent \/ row.thread_id \in fwd.where[1].ids

\* electric-proxy: prepareElectricUrl, the replication endpoint's URL with
\* the client's parameters carried over
prepareElectricUrl(query) == [origin |-> "electric", searchParams |-> query]

\* searchParams.getAll(name)
RECURSIVE SearchParamsGetAll(_, _)
SearchParamsGetAll(params, name) ==
  IF params = <<>> THEN <<>>
  ELSE (IF Head(params).name = name THEN <<Head(params)>> ELSE <<>>)
         \o SearchParamsGetAll(Tail(params), name)

RECURSIVE SearchParamsWithout(_, _)
SearchParamsWithout(params, name) ==
  IF params = <<>> THEN <<>>
  ELSE (IF Head(params).name = name THEN <<>> ELSE <<Head(params)>>)
         \o SearchParamsWithout(Tail(params), name)

\* SearchParamsSet that adds the value and keeps the values already there
SearchParamsSet_Append(params, p) == Append(params, p)

\* searchParams.set(name, value): the first parameter of that name takes
\* the value and the others of that name go; without one it is appended
RECURSIVE SearchParamsSet(_, _)
SearchParamsSet(params, p) ==
  IF params = <<>> THEN <<p>>
  ELSE IF Head(params).name = p.name
    THEN <<p>> \o SearchParamsWithout(Tail(params), p.name)
  ELSE <<Head(params)>> \o SearchParamsSet(Tail(params), p)

\* the URL serve hands to proxyElectricRequest
OriginUrl(query, threadIds) ==
  [prepareElectricUrl(query) EXCEPT
     !.searchParams =
        SearchParamsSet(
          SearchParamsSet(@, Param("table", "chat_messages", Absent)),
          Param("where", "", WhereFilter(threadIds)))]

\* what the replication endpoint reads from a parameter: the first value
SearchParamsGet(params, name) ==
  IF SearchParamsGetAll(params, name) = <<>> THEN Param(name, "", Absent)
  ELSE Head(SearchParamsGetAll(params, name))

\* the caller's thread ids, the rewritten URL, and the call of the
\* replication endpoint
SyncForward(r) ==
  /\ req[r].kind = "sync" /\ req[r].pc = "findThreads"
  /\ LET threadIds == UserThreadIds(req[r].session)
         originUrl == OriginUrl(req[r].query, threadIds) IN
     electric' = electric \cup
       {[user |-> req[r].session,
         table |-> SearchParamsGet(originUrl.searchParams, "table").text,
         where |-> SearchParamsGet(originUrl.searchParams, "where").filter,
         threadIds |-> threadIds,
         searchParams |-> originUrl.searchParams]}
  /\ req' = [req EXCEPT ![r].lookedUp = TRUE, ![r].forwarded = TRUE,
                        ![r].status = 200, ![r].pc = "done"]
  /\ UNCHANGED <<chat_threads, nextThreadId, chat_messages, nextMessageId,
                 cfKey, envKey>>
  /\ UNCHANGED offRequest

Next ==
  \/ \E r \in Reqs : NewRequest(r)
  \/ \E u \in Users : CreateThread(u)
  \/ \E u \in Users, t \in 1..MaxThreads : AddMessage(u, t, "user")
  \/ \E u \in Users : DeleteAllThreads(u)
  \/ \E r \in Reqs : AiSession(r)
  \/ \E r \in Reqs : AiFindThread(r)
  \/ \E r \in Reqs : AiDemoInsert(r)
  \/ \E r \in Reqs : AiOnFinish(r)
  \/ \E r \in Reqs : GuestStart(r)
  \/ \E r \in Reqs : StreamFragment(r)
  \/ \E r \in Reqs : StreamEnd(r)
  \/ \E r \in Reqs : StreamFail(r)
  \/ \E r \in Reqs : SyncSession(r)
  \/ \E r \in Reqs : SyncEnsureTables(r)
  \/ \E r \in Reqs : SyncForward(r)

Spec == Init /\ [][Next]_vars

\* ==================================================== the model of a completion
\* Both completion routes compute `body.model || getDefaultModel()`; a
\* behaviour of SpecModel fixes the two environments, takes requests with
\* and without a model, and resolves the model each would use.
DefaultModel == "google/gemini-2.0-flash-001"

\* AVAILABLE_MODELS of the chat view
AvailableModels ==
  {"google/gemini-2.0-flash-001", "anthropic/claude-sonnet-4",
   "openai/gpt-4o"}

ModelInputs == {Absent, Some("")} \cup {Some(m) : m \in AvailableModels}

EnvModelInputs == {NoKey, "", "openai/gpt-4o"}

\* part_000: getModel, the platform context when it holds a non-empty
\* value, else process.env.OPENROUTER_MODEL ?? the literal
getModel ==
  IF cfModel \notin {NoKey, ""} THEN cfModel
  ELSE IF envModel # NoKey THEN envModel
  ELSE DefaultModel

getDefaultModel == getModel

\* body.model || getDefaultModel()
RequestModel(bodyModel) ==
  IF bodyModel # Absent /\ bodyModel[1] # "" THEN bodyModel[1]
  ELSE getDefaultModel

InitModel ==
  /\ ServerAtRest /\ AuthAtRest /\ GuestAtRest /\ ChatAtRest
  /\ cfModel \in EnvModelInputs
  /\ envModel \in EnvModelInputs
  /\ completion = NoCompletion

\* a completion request arrives at one of the two routes
ModelRequest(route, bodyModel) ==
  /\ completion.pc # "received"
  /\ completion' = [route |-> route, bodyModel |-> bodyModel,
                    pc |-> "received", model |-> ""]
  /\ UNCHANGED <<cfModel, envModel>>
  /\ UNCHANGED <<serverVars, authVars, guestVars, chatVars>>

\* const model = body.model || getDefaultModel()
ModelResolve ==
  /\ completion.pc = "received"
  /\ completion' = [completion EXCEPT
                      !.pc = "resolved",
                      !.model = RequestModel(completion.bodyModel)]
  /\ UNCHANGED <<cfModel, envModel>>
  /\ UNCHANGED <<serverVars, authVars, guestVars, chatVars>>

NextModel ==
  \/ \E route \in {"ai", "guest"}, m \in ModelInputs : ModelRequest(route, m)
  \/ ModelResolve

SpecModel == InitModel /\ [][NextModel]_vars

\* ======================================================= getEnv and getAuth
\* A behaviour of SpecAuth fixes process.env and follows a sequence of
\* requests, each with the platform context it runs in, as far as the
\* required secrets and the cached auth handle are concerned.
DatabaseUrls == {NoKey, "", "pg://a", "pg://b"}
AuthSecrets  == {NoKey, "", "s3cret"}

EnvInputs == [DATABASE_URL : DatabaseUrls, BETTER_AUTH_SECRET : AuthSecrets]

\* a ?? b
Coalesce(a, b) == IF a # NoKey THEN a ELSE b

\* !value, for a string or undefined
Empty(v) == v \in {NoKey, ""}

\* getEnv up to its checks: the platform context first, then process.env
ResolvedEnv(cf) ==
  [DATABASE_URL |-> Coalesce(cf.DATABASE_URL, processEnv.DATABASE_URL),
   BETTER_AUTH_SECRET |->
     Coalesce(cf.BETTER_AUTH_SECRET, processEnv.BETTER_AUTH_SECRET)]

\* the Error getEnv throws, "" when it returns
GetEnvError(cf) ==
  IF Empty(ResolvedEnv(cf).DATABASE_URL)
    THEN "DATABASE_URL is not configured"
  ELSE IF Empty(ResolvedEnv(cf).BETTER_AUTH_SECRET)
    THEN "BETTER_AUTH_SECRET is not configured"
  ELSE ""

\* the handle betterAuth({...}) builds from an environment
BuildAuth(env) ==
  [database |-> env.DATABASE_URL, secret |-> env.BETTER_AUTH_SECRET]

InitAuth ==
  /\ ServerAtRest /\ ModelAtRest /\ GuestAtRest /\ ChatAtRest
  /\ processEnv \in EnvInputs
  /\ cachedAuth = Absent
  /\ cachedDbUrl = ""
  /\ call = NoCall

\* a request reaches one of the endpoints, in a platform context
AuthArrive(endpoint, cf) ==
  /\ call.pc # "arrived"
  /\ call' = [NoCall EXCEPT !.endpoint = endpoint, !.cf = cf,
                            !.pc = "arrived", !.cacheBefore = cachedAuth,
                            !.urlBefore = cachedDbUrl]
  /\ UNCHANGED <<processEnv, cachedAuth, cachedDbUrl>>
  /\ UNCHANGED <<serverVars, modelVars, guestVars, chatVars>>

\* NeedsBuild that keeps a cached handle whatever the address is
NeedsBuild_OnlyWhenEmpty(env) == cachedAuth = Absent

\* !cachedAuth || cachedDbUrl !== env.DATABASE_URL
NeedsBuild(env) == cachedAuth = Absent \/ cachedDbUrl # env.DATABASE_URL

\* the first statement of the completion route and of the sync proxy:
\* getAuth().api.getSession(...); getAuth throws what getEnv throws, else
\* builds the handle when none is cached or the address changed, and
\* returns the cached handle
SessionEndpoint ==
  /\ call.pc = "arrived" /\ call.endpoint \in {"ai", "sync"}
  /\ IF GetEnvError(call.cf) # ""
       THEN /\ call' = [call EXCEPT !.pc = "done",
                                    !.error = GetEnvError(call.cf)]
            /\ UNCHANGED <<cachedAuth, cachedDbUrl>>
       ELSE /\ IF NeedsBuild(ResolvedEnv(call.cf))
                 THEN /\ cachedDbUrl' = ResolvedEnv(call.cf).DATABASE_URL
                      /\ cachedAuth' = Some(BuildAuth(ResolvedEnv(call.cf)))
                 ELSE UNCHANGED <<cachedAuth, cachedDbUrl>>
            /\ call' = [call EXCEPT !.pc = "done", !.served = TRUE,
                                    !.built = NeedsBuild(ResolvedEnv(call.cf)),
                                    !.returned = cachedAuth']
  /\ UNCHANGED processEnv
  /\ UNCHANGED <<serverVars, modelVars, guestVars, chatVars>>

\* the guest route: its handler calls neither getEnv nor getAuth
GuestEndpoint ==
  /\ call.pc = "arrived" /\ call.endpoint = "guest"
  /\ call' = [call EXCEPT !.pc = "done", !.served = TRUE]
  /\ UNCHANGED <<processEnv, cachedAuth, cachedDbUrl>>
  /\ UNCHANGED <<serverVars, modelVars, guestVars, chatVars>>

NextAuth ==
  \/ \E endpoint \in {"ai", "sync", "guest"}, cf \in EnvInputs :
       AuthArrive(endpoint, cf)
  \/ SessionEndpoint
  \/ GuestEndpoint

SpecAuth == InitAuth /\ [][NextAuth]_vars

\* ================================================================ GuestChat
\* A behaviour of SpecGuest follows the guest views of one browser, one per
\* tab, over the one localStorage they share.  A handler runs up to its
\* next await in one step and reads the state its render closed over; the
\* answers of /api/chat/guest are inputs.
FREE_REQUEST_LIMIT == 1

InputTexts == {"", " ", "hi"}

\* String.prototype.trim
Trim(text) == IF text = " " THEN "" ELSE text

Digits == <<"0", "1", "2", "3", "4", "5", "6", "7", "8", "9">>

\* count.toString()
RECURSIVE NumberToString(_)
NumberToString(n) ==
  IF n < 10 THEN <<Digits[n + 1]>>
  ELSE NumberToString(n \div 10) \o <<Digits[(n % 10) + 1]>>

\* parseInt(text, 10) of a string of decimal digits
RECURSIVE ParseInt(_)
ParseInt(text) ==
  IF text = <<>> THEN 0
  ELSE 10 * ParseInt(SubSeq(text, 1, Len(text) - 1))
         + (CHOOSE d \in 0..9 : Digits[d + 1] = text[Len(text)])

\* parseInt(localStorage.getItem(FREE_REQUEST_KEY) || "0", 10)
getFreeRequestCount ==
  ParseInt(IF localStorage = Absent THEN <<"0">> ELSE localStorage)

\* the chunks a response body delivers, in order, if it is read to its end
Reply == <<"Hi", " there">>

\* the handleSend invocations of one view that can be awaiting at once
SendSlots == {1, 2}

RemoveAt(seq, i) == SubSeq(seq, 1, i - 1) \o SubSeq(seq, i + 1, Len(seq))

\* what the next render of a guest view will close over
GuestSnapshot(v) ==
  GuestClosure(v.input, v.isLoading, v.freeRequestsUsed, v.guestMessages)

\* the view has rendered its current state
GuestRendered(t) == guest[t].rendered = GuestSnapshot(guest[t])

InitGuest ==
  /\ ServerAtRest /\ ModelAtRest /\ AuthAtRest /\ ChatAtRest
  /\ localStorage = Absent
  /\ guest = [t \in Tabs |-> GuestUnmounted]
  /\ guestCalls = [issued |-> 0, completed |-> 0]

\* the tab opens the page: first render, then the effect that loads the
\* counter, then the render that follows it
GuestMount(t) ==
  /\ ~guest[t].mounted
  /\ guest' = [guest EXCEPT ![t] =
       [GuestUnmounted EXCEPT
          !.mounted = TRUE,
          !.freeRequestsUsed = getFreeRequestCount,
          !.rendered = GuestClosure("", FALSE, getFreeRequestCount, <<>>)]]
  /\ UNCHANGED <<localStorage, guestCalls>>
  /\ UNCHANGED <<serverVars, modelVars, authVars, chatVars>>

\* the tab is reloaded or closed: the view and what it awaited are gone
GuestReload(t) ==
  /\ guest[t].mounted
  /\ guest' = [guest EXCEPT ![t] = GuestUnmounted]
  /\ UNCHANGED <<localStorage, guestCalls>>
  /\ UNCHANGED <<serverVars, modelVars, authVars, chatVars>>

\* onChange={(e) => setInput(e.target.value)}, and the render React runs
\* before it handles the next event
GuestType(t, text) ==
  /\ guest[t].mounted /\ guest[t].input # text
  /\ guest' = [guest EXCEPT ![t] =
       [guest[t] EXCEPT
          !.input = text,
          !.rendered = GuestSnapshot([guest[t] EXCEPT !.input = text])]]
  /\ UNCHANGED <<localStorage, guestCalls>>
  /\ UNCHANGED <<serverVars, modelVars, authVars, chatVars>>

\* React renders the view after a send changed its state: the handlers now
\* close over the current state.  It is a step of its own, so a submit event
\* can still reach the handler of the previous render.
GuestRender(t) ==
  /\ guest[t].mounted /\ ~GuestRendered(t)
  /\ guest' = [guest EXCEPT ![t].rendered = GuestSnapshot(guest[t])]
  /\ UNCHANGED <<localStorage, guestCalls>>
  /\ UNCHANGED <<serverVars, modelVars, authVars, chatVars>>

\* "Maybe later" in the auth prompt
GuestDismiss(t) ==
  /\ guest[t].mounted /\ guest[t].showAuthPrompt
  /\ guest' = [guest EXCEPT ![t].showAuthPrompt = FALSE]
  /\ UNCHANGED <<localStorage, guestCalls>>
  /\ UNCHANGED <<serverVars, modelVars, authVars, chatVars>>

\* freeRequestsUsed >= FREE_REQUEST_LIMIT
GuestLimitReached(used) == used >= FREE_REQUEST_LIMIT

\* handleSend up to its first await: the entry guard, the limit check, and
\* the fetch of /api/chat/guest
GuestSubmit(t) ==
  /\ guest[t].mounted
  /\ LET v == guest[t]
         c == guest[t].rendered
         userMessage == Msg("user", <<Trim(c.input)>>)
         stored == getFreeRequestCount IN
     IF Trim(c.input) = "" \/ c.isLoading
       THEN UNCHANGED <<guest, guestCalls>>
     ELSE IF GuestLimitReached(c.freeRequestsUsed)
       THEN /\ guest' = [guest EXCEPT ![t] =
                 [v EXCEPT !.input = "", !.streamingContent = <<>>,
                           !.showAuthPrompt = TRUE, !.isLoading = FALSE,
                           !.last = [stored |-> stored,
                                     outcome |-> "prompt"]]]
            /\ UNCHANGED guestCalls
     ELSE /\ guestCalls.issued < MaxCalls
          /\ Len(guest[t].sends) < Cardinality(SendSlots)
          /\ guest' = [guest EXCEPT ![t] =
               [v EXCEPT !.input = "", !.isLoading = TRUE,
                         !.streamingContent = <<>>,
                         !.guestMessages = Append(@, userMessage),
                         !.sends = Append(@,
                            [pc |-> "fetch",
                             messages |-> Append(c.guestMessages, userMessage),
                             accumulated |-> <<>>]),
                         !.last = [stored |-> stored, outcome |-> "sent"]]]
          /\ guestCalls' = [guestCalls EXCEPT !.issued = @ + 1]
  /\ UNCHANGED localStorage
  /\ UNCHANGED <<serverVars, modelVars, authVars, chatVars>>

\* catch { setStreamingContent("") } finally { setIsLoading(false) }
GuestCatch(v, i) ==
  [v EXCEPT !.streamingContent = <<>>, !.isLoading = FALSE,
            !.sends = RemoveAt(@, i)]

\* the fetch resolves: a non-OK status or a response without a body throws
GuestResponse(t, i, ok) ==
  /\ guest[t].mounted /\ GuestRendered(t)
  /\ i \in 1..Len(guest[t].sends) /\ guest[t].sends[i].pc = "fetch"
  /\ guest' = [guest EXCEPT ![t] =
       IF ok THEN [guest[t] EXCEPT !.sends[i].pc = "read"]
       ELSE GuestCatch(guest[t], i)]
  /\ UNCHANGED <<localStorage, guestCalls>>
  /\ UNCHANGED <<serverVars, modelVars, authVars, chatVars>>

\* reader.read() yields a chunk: accumulated += chunk, shown as it grows
GuestChunk(t, i) ==
  /\ guest[t].mounted /\ GuestRendered(t)
  /\ i \in 1..Len(guest[t].sends) /\ guest[t].sends[i].pc = "read"
  /\ Len(guest[t].sends[i].accumulated) < Len(Reply)
  /\ LET accumulated ==
           Append(guest[t].sends[i].accumulated,
                  Reply[Len(guest[t].sends[i].accumulated) + 1]) IN
     guest' = [guest EXCEPT ![t].sends[i].accumulated = accumulated,
                            ![t].streamingContent = accumulated]
  /\ UNCHANGED <<localStorage, guestCalls>>
  /\ UNCHANGED <<serverVars, modelVars, authVars, chatVars>>

\* GuestStreamError that counts the failed send as a used request
GuestStreamError_Counting(t, i) ==
  /\ guest[t].mounted /\ GuestRendered(t)
  /\ i \in 1..Len(guest[t].sends) /\ guest[t].sends[i].pc = "read"
  /\ guest' = [guest EXCEPT ![t] = GuestCatch(guest[t], i)]
  /\ localStorage' = NumberToString(getFreeRequestCount + 1)
  /\ UNCHANGED guestCalls
  /\ UNCHANGED <<serverVars, modelVars, authVars, chatVars>>

\* reader.read() rejects
GuestStreamError(t, i) ==
  /\ guest[t].mounted /\ GuestRendered(t)
  /\ i \in 1..Len(guest[t].sends) /\ guest[t].sends[i].pc = "read"
  /\ guest' = [guest EXCEPT ![t] = GuestCatch(guest[t], i)]
  /\ UNCHANGED <<localStorage, guestCalls>>
  /\ UNCHANGED <<serverVars, modelVars, authVars, chatVars>>

\* reader.read() reports done: the reply joins the message list, the stored
\* counter is incremented and copied into the view
GuestDone(t, i) ==
  /\ guest[t].mounted /\ GuestRendered(t)
  /\ i \in 1..Len(guest[t].sends) /\ guest[t].sends[i].pc = "read"
  /\ LET newCount == getFreeRequestCount + 1 IN
     /\ localStorage' = NumberToString(newCount)
     /\ guest' = [guest EXCEPT ![t] =
          [guest[t] EXCEPT
             !.guestMessages =
               Append(@, Msg("assistant", guest[t].sends[i].accumulated)),
             !.streamingContent = <<>>,
             !.freeRequestsUsed = newCount,
             !.showAuthPrompt = IF GuestLimitReached(newCount) THEN TRUE
                                ELSE @,
             !.isLoading = FALSE,
             !.sends = RemoveAt(@, i)]]
  /\ guestCalls' = [guestCalls EXCEPT !.completed = @ + 1]
  /\ UNCHANGED <<serverVars, modelVars, authVars, chatVars>>

NextGuest ==
  \/ \E t \in Tabs : GuestMount(t)
  \/ \E t \in Tabs : GuestReload(t)
  \/ \E t \in Tabs, text \in InputTexts : GuestType(t, text)
  \/ \E t \in Tabs : GuestRender(t)
  \/ \E t \in Tabs : GuestDismiss(t)
  \/ \E t \in Tabs : GuestSubmit(t)
  \/ \E t \in Tabs, i \in SendSlots, ok \in BOOLEAN :
       GuestResponse(t, i, ok)
  \/ \E t \in Tabs, i \in SendSlots : GuestChunk(t, i)
  \/ \E t \in Tabs, i \in SendSlots : GuestStreamError(t, i)
  \/ \E t \in Tabs, i \in SendSlots : GuestDone(t, i)

SpecGuest == InitGuest /\ [][NextGuest]_vars

\* ======================================================== AuthenticatedChat
\* A behaviour of SpecChat follows one authenticated view of one user: its
\* sends through createThread, addMessage and /api/chat/ai, against the
\* tables, and the sync feed that fills its collections.  As in the guest
\* view a handler reads the state its render closed over.
ChatUser == "alice"

\* rows in created_at order, which is the order of their identity values
RECURSIVE OrderedRows(_)
OrderedRows(rows) ==
  IF rows = {} THEN <<>>
  ELSE LET first == CHOOSE m \in rows : \A n \in rows : m.id <= n.id IN
       <<first>> \o OrderedRows(rows \ {first})

\* the live query dbMessages: the synced rows of the active thread, or all
\* synced rows when no thread is active
DbMessages(v, activeThreadId) ==
  OrderedRows({m \in v.messages :
                 activeThreadId = Absent \/ m.thread_id = activeThreadId[1]})

\* the effect that selects the newest thread when none is active
AutoSelect(v) ==
  IF v.activeThreadId = Absent /\ v.threads # {}
    THEN Some(CHOOSE id \in v.threads : \A other \in v.threads : other <= id)
    ELSE v.activeThreadId

\* what the next render, with its effects run, will close over
ChatSnapshot(v) ==
  ChatClosure(v.input, v.isLoading, AutoSelect(v),
              DbMessages(v, AutoSelect(v)))

ChatRendered ==
  chat.rendered = ChatSnapshot(chat) /\ chat.activeThreadId = AutoSelect(chat)

\* dbMessages.map((m) => ({ role, content }))
RECURSIVE AsMessages(_)
AsMessages(rows) ==
  IF rows = <<>> THEN <<>>
  ELSE <<Msg(Head(rows).role, Head(rows).content)>> \o AsMessages(Tail(rows))

InitChat ==
  /\ ServerAtRest /\ ModelAtRest /\ AuthAtRest /\ GuestAtRest
  /\ chat = ChatUnmounted

\* a render of the view with its effects run: the newest thread becomes
\* active when none is, a change of the active thread clears the streaming
\* content, and the handlers close over the resulting state
ChatAfterRender(v) ==
  [v EXCEPT
     !.activeThreadId = AutoSelect(v),
     !.streamingContent =
        IF AutoSelect(v) # v.rendered.activeThreadId THEN <<>> ELSE @,
     !.rendered = ChatSnapshot(v)]

ChatMount ==
  /\ ~chat.mounted
  /\ chat' = [ChatUnmounted EXCEPT !.mounted = TRUE]
  /\ UNCHANGED <<serverVars, modelVars, authVars, guestVars>>

\* onChange={(e) => setInput(e.target.value)}, and the render React runs
\* before it handles the next event
ChatType(text) ==
  /\ chat.mounted /\ chat.input # text
  /\ chat' = ChatAfterRender([chat EXCEPT !.input = text])
  /\ UNCHANGED <<serverVars, modelVars, authVars, guestVars>>

\* React renders the view after a send or the sync feed changed its state.
\* It is a step of its own, so a submit event can still reach the handler of
\* the previous render.
ChatRender ==
  /\ chat.mounted /\ ~ChatRendered
  /\ chat' = ChatAfterRender(chat)
  /\ UNCHANGED <<serverVars, modelVars, authVars, guestVars>>

\* the page is reloaded: the view starts over with empty collections, and
\* what its handlers awaited is gone
ChatReload ==
  /\ chat.mounted
  /\ chat' = [ChatUnmounted EXCEPT !.mounted = TRUE, !.issued = chat.issued]
  /\ UNCHANGED <<serverVars, modelVars, authVars, guestVars>>

\* a thread of the list is clicked: setActiveThreadId(thread.id), and the
\* render React runs before it handles the next event
ChatSelectThread(id) ==
  /\ chat.mounted
  /\ id \in chat.threads /\ chat.activeThreadId # Some(id)
  /\ chat' = ChatAfterRender([chat EXCEPT !.activeThreadId = Some(id)])
  /\ UNCHANGED <<serverVars, modelVars, authVars, guestVars>>

\* "New" is clicked and createThread() inserts the row
ChatNewClick ==
  /\ chat.mounted /\ chat.newThread = Absent
  /\ nextThreadId <= MaxThreads
  /\ chat_threads' = chat_threads
       \cup {[id |-> nextThreadId, user_id |-> ChatUser]}
  /\ nextThreadId' = nextThreadId + 1
  /\ chat' = [chat EXCEPT !.newThread = Some(nextThreadId)]
  /\ UNCHANGED <<chat_messages, nextMessageId, cfKey, envKey, req, electric>>
  /\ UNCHANGED <<modelVars, authVars, guestVars>>

\* createThread() of "New" resolves: setActiveThreadId(thread.id)
ChatNewDone ==
  /\ chat.mounted /\ chat.newThread # Absent
  /\ chat' = ChatAfterRender([chat EXCEPT !.activeThreadId = chat.newThread,
                                          !.newThread = Absent])
  /\ UNCHANGED <<serverVars, modelVars, authVars, guestVars>>

\* the sync feed brings the threads collection up to date
ChatSyncThreads ==
  /\ chat.mounted /\ chat.threads # UserThreadIds(ChatUser)
  /\ chat' = [chat EXCEPT !.threads = UserThreadIds(ChatUser)]
  /\ UNCHANGED <<serverVars, modelVars, authVars, guestVars>>

\* the rows the sync proxy's filter lets through for the user
SyncedRows(user) ==
  {m \in chat_messages : m.thread_id \in UserThreadIds(user)}

\* the sync feed brings the messages collection up to date
ChatSyncMessages ==
  /\ chat.mounted /\ chat.messages # SyncedRows(ChatUser)
  /\ chat' = [chat EXCEPT !.messages = SyncedRows(ChatUser)]
  /\ UNCHANGED <<serverVars, modelVars, authVars, guestVars>>

\* handleSend up to its first await: the entry guard, then createThread
\* when no thread is active, else addMessage
ChatSubmit ==
  /\ chat.mounted
  /\ LET c == chat.rendered IN
     IF Trim(c.input) = "" \/ c.isLoading
       THEN UNCHANGED chat
     ELSE /\ chat.issued < MaxSends
          /\ Len(chat.sends) < Cardinality(SendSlots)
          /\ chat' = [chat EXCEPT
               !.input = "", !.isLoading = TRUE, !.streamingContent = <<>>,
               !.issued = @ + 1,
               !.sends = Append(@,
                  [pc |-> IF c.activeThreadId = Absent THEN "createThread"
                          ELSE "addMessage",
                   threadId |-> c.activeThreadId,
                   steps |-> IF c.activeThreadId = Absent
                               THEN <<"createThread">>
                             ELSE <<"addMessage">>,
                   userMessage |-> <<Trim(c.input)>>,
                   dbMessages |-> c.dbMessages,
                   messages |-> <<>>, reply |-> Absent, savedId |-> Absent,
                   accumulated |-> <<>>])]
  /\ UNCHANGED <<serverVars, modelVars, authVars, guestVars>>

\* ChatCatch without the finally block
ChatCatch_NoFinally(v, i) ==
  [v EXCEPT !.streamingContent = <<>>, !.sends = RemoveAt(@, i)]

\* catch { setStreamingContent("") } finally { setIsLoading(false) }
ChatCatch(v, i) ==
  [v EXCEPT !.streamingContent = <<>>, !.isLoading = FALSE,
            !.sends = RemoveAt(@, i)]

\* createThread resolves with the new row, or fails
ChatCreateThreadDone(i, ok) ==
  /\ chat.mounted /\ ChatRendered
  /\ i \in 1..Len(chat.sends) /\ chat.sends[i].pc = "createThread"
  /\ ok => nextThreadId <= MaxThreads
  /\ IF ok
       THEN /\ chat_threads' = chat_threads
                 \cup {[id |-> nextThreadId, user_id |-> ChatUser]}
            /\ nextThreadId' = nextThreadId + 1
            /\ chat' = [chat EXCEPT
                 !.activeThreadId = Some(nextThreadId),
                 !.sends[i].threadId = Some(nextThreadId),
                 !.sends[i].steps = Append(@, "addMessage"),
                 !.sends[i].pc = "addMessage"]
       ELSE /\ chat' = ChatCatch(chat, i)
            /\ UNCHANGED <<chat_threads, nextThreadId>>
  /\ UNCHANGED <<chat_messages, nextMessageId, cfKey, envKey, req, electric>>
  /\ UNCHANGED <<modelVars, authVars, guestVars>>

\* ChatAddMessageDone that calls /api/chat/ai whether or not the write of
\* the user message succeeded
ChatAddMessageDone_IgnoringFailure(i, ok) ==
  /\ chat.mounted /\ ChatRendered
  /\ i \in 1..Len(chat.sends) /\ chat.sends[i].pc = "addMessage"
  /\ LET send == chat.sends[i] IN
     /\ IF ok /\ ForeignKeyHolds(send.threadId[1])
          THEN /\ chat_messages' = chat_messages
                    \cup {NewMessageRow(send.threadId[1], "user",
                                        send.userMessage)}
               /\ nextMessageId' = nextMessageId + 1
          ELSE UNCHANGED <<chat_messages, nextMessageId>>
     /\ chat' = [chat EXCEPT
          !.sends[i].messages =
             Append(AsMessages(send.dbMessages),
                    Msg("user", send.userMessage)),
          !.sends[i].steps = Append(@, "ai"),
          !.sends[i].pc = "fetchAi"]
  /\ UNCHANGED <<chat_threads, nextThreadId, cfKey, envKey, req, electric>>
  /\ UNCHANGED <<modelVars, authVars, guestVars>>

\* addMessage resolves with the stored user row, or fails; on success the
\* message list is built and /api/chat/ai is called
ChatAddMessageDone(i, ok) ==
  /\ chat.mounted /\ ChatRendered
  /\ i \in 1..Len(chat.sends) /\ chat.sends[i].pc = "addMessage"
  /\ LET send == chat.sends[i] IN
     IF ok /\ ForeignKeyHolds(send.threadId[1])
       THEN /\ chat_messages' = chat_messages
                 \cup {NewMessageRow(send.threadId[1], "user",
                                     send.userMessage)}
            /\ nextMessageId' = nextMessageId + 1
            /\ chat' = [chat EXCEPT
                 !.sends[i].messages =
                    Append(AsMessages(send.dbMessages),
                           Msg("user", send.userMessage)),
                 !.sends[i].steps = Append(@, "ai"),
                 !.sends[i].pc = "fetchAi"]
       ELSE /\ chat' = ChatCatch(chat, i)
            /\ UNCHANGED <<chat_messages, nextMessageId>>
  /\ UNCHANGED <<chat_threads, nextThreadId, cfKey, envKey, req, electric>>
  /\ UNCHANGED <<modelVars, authVars, guestVars>>

\* the completion route saves the assistant message of the send: before it
\* answers in demo mode, when the upstream has finished in real mode; the
\* view may not have read all of the reply yet
ChatAiPersist(i) ==
  /\ chat.mounted
  /\ i \in 1..Len(chat.sends) /\ chat.sends[i].pc \in {"fetchAi", "read"}
  /\ chat.sends[i].reply = Absent
  /\ ForeignKeyHolds(chat.sends[i].threadId[1])
  /\ chat_messages' = chat_messages
       \cup {NewMessageRow(chat.sends[i].threadId[1], "assistant", Reply)}
  /\ chat' = [chat EXCEPT !.sends[i].reply = Some(Reply),
                          !.sends[i].savedId = Some(nextMessageId)]
  /\ nextMessageId' = nextMessageId + 1
  /\ UNCHANGED <<chat_threads, nextThreadId, cfKey, envKey, req, electric>>
  /\ UNCHANGED <<modelVars, authVars, guestVars>>

\* the fetch of /api/chat/ai resolves: a non-OK status or a response
\* without a body throws
ChatAiResponse(i, ok) ==
  /\ chat.mounted /\ ChatRendered
  /\ i \in 1..Len(chat.sends) /\ chat.sends[i].pc = "fetchAi"
  /\ chat' = IF ok THEN [chat EXCEPT !.sends[i].pc = "read"]
             ELSE ChatCatch(chat, i)
  /\ UNCHANGED <<serverVars, modelVars, authVars, guestVars>>

\* reader.read() yields a chunk: accumulated += chunk, shown as it grows
ChatChunk(i) ==
  /\ chat.mounted /\ ChatRendered
  /\ i \in 1..Len(chat.sends) /\ chat.sends[i].pc = "read"
  /\ Len(chat.sends[i].accumulated) <
       (IF chat.sends[i].reply = Absent THEN Len(Reply)
        ELSE Len(chat.sends[i].reply[1]))
  /\ LET accumulated ==
           Append(chat.sends[i].accumulated,
                  Reply[Len(chat.sends[i].accumulated) + 1]) IN
     chat' = [chat EXCEPT !.sends[i].accumulated = accumulated,
                          !.streamingContent = accumulated]
  /\ UNCHANGED <<serverVars, modelVars, authVars, guestVars>>

\* reader.read() rejects
ChatStreamError(i) ==
  /\ chat.mounted /\ ChatRendered
  /\ i \in 1..Len(chat.sends) /\ chat.sends[i].pc = "read"
  /\ chat' = ChatCatch(chat, i)
  /\ UNCHANGED <<serverVars, modelVars, authVars, guestVars>>

\* reader.read() reports done, after the whole saved reply was read
ChatStreamDone(i) ==
  /\ chat.mounted /\ ChatRendered
  /\ i \in 1..Len(chat.sends) /\ chat.sends[i].pc = "read"
  /\ chat.sends[i].reply = Some(chat.sends[i].accumulated)
  /\ chat' = [chat EXCEPT !.streamingContent = <<>>, !.isLoading = FALSE,
                          !.sends = RemoveAt(@, i)]
  /\ UNCHANGED <<serverVars, modelVars, authVars, guestVars>>

NextChat ==
  \/ ChatMount
  \/ \E text \in InputTexts : ChatType(text)
  \/ ChatRender
  \/ ChatReload
  \/ \E id \in 1..MaxThreads : ChatSelectThread(id)
  \/ ChatNewClick
  \/ ChatNewDone
  \/ ChatSyncThreads
  \/ ChatSyncMessages
  \/ ChatSubmit
  \/ \E i \in SendSlots, ok \in BOOLEAN : ChatCreateThreadDone(i, ok)
  \/ \E i \in SendSlots, ok \in BOOLEAN : ChatAddMessageDone(i, ok)
  \/ \E i \in SendSlots : ChatAiPersist(i)
  \/ \E i \in SendSlots, ok \in BOOLEAN : ChatAiResponse(i, ok)
  \/ \E i \in SendSlots : ChatChunk(i)
  \/ \E i \in SendSlots : ChatStreamError(i)
  \/ \E i \in SendSlots : ChatStreamDone(i)

SpecChat == InitChat /\ [][NextChat]_vars

\* ================================================== the two views, with time
\* A behaviour of SpecViews follows the page of a visitor who is signed in
\* or of one who is not.  A pending render runs; and what a handler awaits
\* is settled, one way or the other, and the handler goes on: user events
\* and renders may come first, but not for ever.
ChatContinue ==
  \/ \E i \in SendSlots, ok \in BOOLEAN : ChatCreateThreadDone(i, ok)
  \/ \E i \in SendSlots, ok \in BOOLEAN : ChatAddMessageDone(i, ok)
  \/ \E i \in SendSlots, ok \in BOOLEAN : ChatAiResponse(i, ok)
  \/ \E i \in SendSlots : ChatChunk(i)
  \/ \E i \in SendSlots : ChatStreamError(i)
  \/ \E i \in SendSlots : ChatStreamDone(i)

GuestContinue(t) ==
  \/ \E i \in SendSlots, ok \in BOOLEAN : GuestResponse(t, i, ok)
  \/ \E i \in SendSlots : GuestChunk(t, i)
  \/ \E i \in SendSlots : GuestStreamError(t, i)
  \/ \E i \in SendSlots : GuestDone(t, i)

InitViews == ServerAtRest /\ ModelAtRest /\ AuthAtRest /\ GuestAtRest
               /\ ChatAtRest

\* The guest uses one tab ("t1"); the shapes deliver nothing while the
\* sends of the signed-in visitor run, and that visitor stays in the
\* conversation the page opened.
TheTab == "t1"

NextViews ==
  \/ GuestAtRest /\ ChatMount
  \/ GuestAtRest /\ ChatReload
  \/ GuestAtRest /\ \E text \in InputTexts : ChatType(text)
  \/ GuestAtRest /\ ChatRender
  \/ GuestAtRest /\ ChatSubmit
  \/ GuestAtRest /\ \E i \in SendSlots : ChatAiPersist(i)
  \/ GuestAtRest /\ ChatContinue
  \/ ChatAtRest /\ GuestMount(TheTab)
  \/ ChatAtRest /\ GuestReload(TheTab)
  \/ ChatAtRest /\ \E text \in InputTexts : GuestType(TheTab, text)
  \/ ChatAtRest /\ GuestRender(TheTab)
  \/ ChatAtRest /\ GuestDismiss(TheTab)
  \/ ChatAtRest /\ GuestSubmit(TheTab)
  \/ ChatAtRest /\ GuestContinue(TheTab)

SpecViews ==
  /\ InitViews /\ [][NextViews]_vars
  /\ WF_vars(ChatRender) /\ SF_vars(ChatContinue)
  /\ WF_vars(GuestRender(TheTab)) /\ SF_vars(GuestContinue(TheTab))

\* ------------------------------------------------------------ properties
OwnerOf(threadId) == {t.user_id : t \in {t \in chat_threads : t.id = threadId}}

\* C1: the filter forwarded for user A never matches a chat_messages row
\* whose thread is owned by another user B, whatever happens to the tables
\* after the request was forwarded.
C1_FilterNeverMatchesForeignRows ==
  \A f \in electric : \A m \in chat_messages :
    (\E owner \in OwnerOf(m.thread_id) : owner # f.user)
      => ~ShapeMatches(f, m)

\* A's request went out with an IN filter while a row of B's thread exists
C1_Witness ==
  \E f \in electric : \E m \in chat_messages :
    /\ f.where # Absent /\ f.where[1].op = "IN"
    /\ \E owner \in OwnerOf(m.thread_id) : owner # f.user

\* C2: a caller who owned no thread when the proxy looked still gets a
\* where filter, and it matches no row; no request is forwarded unfiltered.
C2_EmptyOwnerGetsEmptyFilter ==
  \A f \in electric :
    /\ f.where # Absent
    /\ f.threadIds = {} => \A m \in chat_messages : ~ShapeMatches(f, m)

\* a request of a caller without threads was forwarded, and rows exist
C2_Witness ==
  \E f \in electric : f.threadIds = {} /\ chat_messages # {}

\* C3: a completion request without a session is answered 401 whatever its
\* body, and looks up no thread, calls no LLM and writes nothing.
C3_AiNoSessionIs401 ==
  \A r \in Reqs :
    (req[r].kind = "ai" /\ req[r].session = NoSession) =>
      /\ ~req[r].lookedUp /\ ~req[r].llmCalled /\ req[r].inserts = <<>>
      /\ req[r].pc \in {"start", "done"}
      /\ req[r].pc = "done" => req[r].status = 401

\* answered 401 with a malformed body
C3_Witness ==
  \E r \in Reqs :
    /\ req[r].kind = "ai" /\ req[r].session = NoSession
    /\ req[r].body = Malformed /\ req[r].status = 401

\* C4: a sync request without a session is answered 401; it runs no schema
\* statement and no thread query and never reaches the replication
\* endpoint.
C4_SyncNoSessionIs401 ==
  /\ \A r \in Reqs :
       (req[r].kind = "sync" /\ req[r].session = NoSession) =>
         /\ req[r].schemaStmts = 0 /\ ~req[r].lookedUp /\ ~req[r].forwarded
         /\ req[r].pc \in {"start", "done"}
         /\ req[r].pc = "done" => req[r].status = 401
  /\ \A f \in electric : f.user # NoSession

C4_Witness ==
  \E r \in Reqs :
    /\ req[r].kind = "sync" /\ req[r].session = NoSession
    /\ req[r].status = 401 /\ electric = {}

\* C5: when the lookup finds no thread, or a thread of another user, the
\* answer is 403, nothing is inserted and the LLM is not called, with or
\* without an LLM key.
C5_ForeignThreadIs403 ==
  \A r \in Reqs :
    (/\ req[r].kind = "ai" /\ req[r].lookedUp
     /\ \/ req[r].found = {}
        \/ \E t \in req[r].found : t.user_id # req[r].session) =>
      /\ req[r].status = 403 /\ req[r].pc = "done"
      /\ req[r].inserts = <<>> /\ ~req[r].llmCalled

\* 403 for another user's thread in demo mode
C5_Witness ==
  \E r \in Reqs :
    /\ req[r].kind = "ai" /\ req[r].status = 403
    /\ \E t \in req[r].found : t.user_id # req[r].session
    /\ cfKey = NoKey /\ envKey = NoKey

\* 403 for a thread that does not exist, in real mode
C5_WitnessRealMode ==
  \E r \in Reqs :
    /\ req[r].kind = "ai" /\ req[r].status = 403 /\ req[r].found = {}
    /\ envKey # NoKey

IsAi(r) == req[r].kind = "ai"
NoKeyResolved == cfKey = NoKey /\ envKey = NoKey

\* the lookup of request r found a thread of its caller
FoundOwnThread(r) ==
  /\ req[r].lookedUp /\ req[r].found # {}
  /\ \A t \in req[r].found : t.user_id = req[r].session

\* the thread was still there whenever request r ran an insert
NoInsertRejected(r) ==
  \A i \in 1..Len(req[r].inserts) : req[r].inserts[i].accepted

\* C6: in real mode, once the upstream completed normally, the request has
\* run exactly one insert, with the concatenation of all relayed fragments
\* as content (never a proper prefix of it), and that insert created the
\* one assistant row of the request unless the thread was deleted while the
\* reply streamed, when the foreign key rejects it.
C6_OneRowWithFullText ==
  \A r \in Reqs :
    (IsAi(r) /\ req[r].upstream = "finished" /\ req[r].pc = "done") =>
      /\ Len(req[r].inserts) = 1
      /\ req[r].inserts[1].content = Flatten(req[r].chunks)
      /\ req[r].inserts[1].accepted => req[r].stream = "closed"

\* "Hi", " there" streamed and one row with "Hi there" created
C6_Witness ==
  \E r \in Reqs :
    /\ IsAi(r) /\ req[r].pc = "done"
    /\ req[r].chunks = << <<"Hi">>, <<" there">> >>
    /\ Len(req[r].inserts) = 1 /\ req[r].inserts[1].accepted
    /\ req[r].inserts[1].content = <<"Hi", " there">>
    /\ \E m \in chat_messages :
         m.role = "assistant" /\ m.content = <<"Hi", " there">>

\* C7 as stated: every insert of a completion request, in demo mode or in
\* real mode, runs once and only after the stream has reached its natural
\* end, never before the first fragment is delivered.
C7_InsertOnlyAfterStreamEnd ==
  \A r \in Reqs :
    IsAi(r) =>
      /\ Len(req[r].inserts) <= 1
      /\ \A i \in 1..Len(req[r].inserts) :
           /\ req[r].inserts[i].upstreamBefore = "finished"
           /\ req[r].pc = "done" =>
                req[r].inserts[i].chunksBefore = Len(req[r].chunks)

\* C7 amended: a request inserts at most once; in real mode only after the
\* upstream reached its natural end, with every fragment already
\* delivered; in demo mode before the response stream exists, so before
\* its only chunk is delivered.
C7_InsertOncePerMode ==
  \A r \in Reqs :
    IsAi(r) =>
      /\ Len(req[r].inserts) <= 1
      /\ \A i \in 1..Len(req[r].inserts) :
           IF req[r].demo
             THEN /\ req[r].inserts[i].chunksBefore = 0
                  /\ req[r].inserts[i].streamBefore = "none"
                  /\ req[r].inserts[i].upstreamBefore = "none"
             ELSE /\ req[r].inserts[i].upstreamBefore = "finished"
                  /\ req[r].inserts[i].streamBefore = "open"
                  /\ req[r].pc = "done" =>
                       req[r].inserts[i].chunksBefore = Len(req[r].chunks)

\* a demo request whose chunk was delivered after its insert
C7_Witness ==
  \E r \in Reqs :
    /\ IsAi(r) /\ req[r].demo /\ req[r].pc = "done"
    /\ Len(req[r].inserts) = 1 /\ req[r].inserts[1].accepted
    /\ req[r].inserts[1].chunksBefore = 0 /\ Len(req[r].chunks) = 1

Embeds(s, c) ==
  \E i \in 1..(Len(s) - Len(c) + 1) : SubSeq(s, i, i + Len(c) - 1) = c

\* the positions of the messages with role user
UserPositions(ms) == {i \in 1..Len(ms) : ms[i].role = "user"}

\* C9: without an LLM key, a request for a thread of its caller runs one
\* insert whose content embeds the content of the last message with role
\* user, and its response stream delivers exactly one chunk and ends; the
\* insert creates the row unless the thread was deleted since the lookup,
\* when the foreign key rejects it and the request fails.
C9_DemoPersistsEcho ==
  \A r \in Reqs :
    (IsAi(r) /\ NoKeyResolved /\ FoundOwnThread(r) /\ req[r].pc = "done") =>
      /\ Len(req[r].inserts) = 1
      /\ \A i \in UserPositions(AiMessages(r)) :
           (\A j \in UserPositions(AiMessages(r)) : j <= i) =>
             Embeds(req[r].inserts[1].content, AiMessages(r)[i].content)
      /\ IF req[r].inserts[1].accepted
           THEN /\ req[r].status = 200
                /\ Len(req[r].chunks) = 1 /\ req[r].stream = "closed"
           ELSE req[r].status = 500 /\ req[r].chunks = <<>>

\* "hello" then an assistant message submitted: the saved reply embeds
\* "hello" and one chunk was streamed
C9_Witness ==
  \E r \in Reqs :
    /\ IsAi(r) /\ NoKeyResolved /\ req[r].pc = "done" /\ req[r].status = 200
    /\ AiMessages(r) = <<Msg("user", <<"hello">>), Msg("assistant", <<"hey">>)>>
    /\ Len(req[r].chunks) = 1
    /\ \E m \in chat_messages :
         m.role = "assistant" /\ Embeds(m.content, <<"hello">>)

\* a guest body that carries messages
ValidGuestBody(b) ==
  b # Malformed /\ b[1].messages # Absent /\ b[1].messages[1] # <<>>

\* C10: with no LLM key in the platform context and none in the process
\* environment, no request calls the completion collaborator, and a valid
\* request is answered 200 with the canned reply as its whole body: the
\* guest route for any body with messages, the completion route for a
\* thread of its caller (that is still there when the reply is saved).
C10_NoKeyDegradesToDemo ==
  NoKeyResolved =>
    \A r \in Reqs :
      /\ ~req[r].llmCalled
      /\ req[r].upstream = "none"
      /\ (/\ req[r].kind = "guest" /\ req[r].pc = "done"
          /\ ValidGuestBody(req[r].body)) =>
           /\ req[r].status = 200 /\ req[r].stream = "closed"
           /\ req[r].chunks = <<DemoReply(AiMessages(r))>>
      /\ (/\ IsAi(r) /\ req[r].pc = "done" /\ FoundOwnThread(r)
          /\ NoInsertRejected(r)) =>
           /\ req[r].status = 200 /\ req[r].stream = "closed"
           /\ req[r].chunks = <<DataStreamChunk(DemoReply(AiMessages(r)))>>

\* both routes have answered in demo mode
C10_Witness ==
  \E r \in Reqs :
    /\ NoKeyResolved /\ req[r].kind = "guest" /\ req[r].status = 200
    /\ req[r].chunks = <<DemoReply(<<Msg("user", <<"hello">>)>>)>>

C10_WitnessAi ==
  \E r \in Reqs :
    /\ NoKeyResolved /\ IsAi(r) /\ req[r].status = 200
    /\ Len(req[r].chunks) = 1 /\ req[r].demo

\* the tables, as the guest route must leave them
Tables == <<chat_threads, nextThreadId, chat_messages, nextMessageId>>

\* C11: no step of a guest request reads a session, looks a thread up or
\* runs an insert, in demo mode, in real mode and on the 400 path, and every
\* such step leaves the thread and message tables as they were, also when
\* the caller is signed in and the body names an existing thread.
C11_GuestTouchesNoTable ==
  [][\A r \in Reqs :
       (req'[r].kind = "guest" /\ req'[r] # req[r]) =>
         /\ ~req'[r].sessionRead /\ ~req'[r].lookedUp
         /\ req'[r].inserts = <<>> /\ req'[r].found = {}
         /\ Tables' = Tables]_vars

\* a signed-in guest call naming an existing thread was served while a row
\* was stored
C11_Witness ==
  \E r \in Reqs :
    /\ req[r].kind = "guest" /\ req[r].pc = "done" /\ req[r].status = 200
    /\ req[r].session \in Users
    /\ ParseBody(req[r].body).threadId = Some(Num(1)) /\ 1 \in ThreadIds
    /\ chat_messages # {}

BadThreadId(b) ==
  \/ b = Malformed
  \/ b[1].threadId \in {Absent, Some(Num(0)), Some(Str("abc"))}

\* C13: a signed-in completion request whose threadId is missing, zero or
\* not a number, or whose messages are missing or empty, and a guest request
\* whose messages are missing or empty, ends its first step answered 400,
\* with no thread lookup, no completion call and no insert.
C13_BadRequestIs400 ==
  \A r \in Reqs :
    (/\ req[r].pc # "start"
     /\ \/ /\ IsAi(r) /\ req[r].session \in Users
           /\ BadThreadId(req[r].body) \/ ~ValidGuestBody(req[r].body)
        \/ /\ req[r].kind = "guest" /\ ~ValidGuestBody(req[r].body)) =>
      /\ req[r].pc = "done" /\ req[r].status = 400
      /\ ~req[r].lookedUp /\ req[r].found = {}
      /\ ~req[r].llmCalled /\ req[r].upstream = "none"
      /\ req[r].inserts = <<>>

\* a signed-in completion request with a text threadId and messages got 400
C13_Witness ==
  \E r \in Reqs :
    /\ IsAi(r) /\ req[r].session \in Users /\ req[r].status = 400
    /\ ParseBody(req[r].body).threadId = Some(Str("abc"))
    /\ ValidGuestBody(req[r].body)

\* a guest request with an empty messages list got 400
C13_WitnessGuest ==
  \E r \in Reqs :
    /\ req[r].kind = "guest" /\ req[r].status = 400
    /\ ParseBody(req[r].body).messages = Some(<<>>)

\* C16 as stated: no step removes a stored message row.
C16_RowsNeverRemoved ==
  [][\A m \in chat_messages : m \in chat_messages']_vars

\* C16: no step changes a stored message row, and a row leaves the table
\* only in the step that deletes its thread (ON DELETE CASCADE under
\* delete-all-threads); rows of the threads that stay are kept.
C16_RowsGoOnlyWithTheirThread ==
  [][\A m \in chat_messages :
       /\ m \in chat_messages' \/ m.thread_id \notin ThreadIds'
       /\ \A n \in chat_messages' : n.id = m.id => n = m]_vars

\* a stored row went with its thread while another row stayed
C16_Witness ==
  nextMessageId > Cardinality(chat_messages) + 1 /\ chat_messages # {}

\* C17: every stored row references a stored thread, and every insert of a
\* completion request that the database accepted ran while the thread was
\* stored and owned by the requester, whatever the other requests did
\* between the ownership check and the insert.
C17_WrittenOnlyForOwnThread ==
  /\ \A m \in chat_messages : m.thread_id \in ThreadIds
  /\ \A r \in Reqs : \A i \in 1..Len(req[r].inserts) :
       req[r].inserts[i].accepted =>
         req[r].inserts[i].owners = {req[r].session}

\* the thread passed the ownership check, was deleted, and the insert that
\* followed was refused
C17_Witness ==
  \E r \in Reqs :
    /\ IsAi(r) /\ FoundOwnThread(r) /\ Len(req[r].inserts) = 1
    /\ ~req[r].inserts[1].accepted /\ req[r].inserts[1].owners = {}

\* an insert went through after the tables had changed under the request
C17_WitnessAccepted ==
  \E r \in Reqs :
    /\ IsAi(r) /\ Len(req[r].inserts) = 1 /\ req[r].inserts[1].accepted
    /\ req[r].inserts[1].owners = {req[r].session}
    /\ Cardinality(chat_threads) < nextThreadId - 1

\* C18: a completion request that carries no model, with OPENROUTER_MODEL
\* set in neither environment, uses anthropic/claude-sonnet-4.
C18_DefaultIsSonnet ==
  (/\ completion.pc = "resolved" /\ completion.bodyModel = Absent
   /\ cfModel = NoKey /\ envModel = NoKey) =>
    completion.model = "anthropic/claude-sonnet-4"

\* a required secret is set in neither environment of the call
MissingFromBoth(cf) ==
  \/ Empty(cf.DATABASE_URL) /\ Empty(processEnv.DATABASE_URL)
  \/ Empty(cf.BETTER_AUTH_SECRET) /\ Empty(processEnv.BETTER_AUTH_SECRET)

\* C19: a request that runs while DATABASE_URL or BETTER_AUTH_SECRET is set
\* neither in the platform context nor in process.env is not served, on
\* any endpoint, the guest route included: it ends with the configuration
\* error, and the cached auth handle is what it was when the request came.
C19_NoRequestServedWithoutSecrets ==
  (call.pc = "done" /\ MissingFromBoth(call.cf)) =>
    /\ ~call.served
    /\ call.error \in {"DATABASE_URL is not configured",
                        "BETTER_AUTH_SECRET is not configured"}
    /\ cachedAuth = call.cacheBefore

\* C19 without the guest route: the endpoints that validate a session fail
\* with the configuration error and leave the cached handle alone
C19_SessionEndpointsFailFast ==
  (/\ call.pc = "done" /\ MissingFromBoth(call.cf)
   /\ call.endpoint \in {"ai", "sync"}) =>
    /\ ~call.served
    /\ call.error \in {"DATABASE_URL is not configured",
                        "BETTER_AUTH_SECRET is not configured"}
    /\ cachedAuth = call.cacheBefore

\* C14: in every guest view, a submit that the entry guard lets through
\* while the stored counter is at the limit shows the auth prompt and sends
\* nothing to /api/chat/guest (last is the latest such submit of the view).
C14_NoSendOnceCounterAtLimit ==
  \A t \in Tabs :
    (/\ GuestLimitReached(guest[t].last.stored)
     /\ guest[t].last.outcome # "none") =>
      guest[t].last.outcome = "prompt"

\* C15: over all tabs and interleavings, at most FREE_REQUEST_LIMIT calls
\* of /api/chat/guest end normally.
C15_AtMostLimitCompletions == guestCalls.completed <= FREE_REQUEST_LIMIT

\* C20: in both chat views no step starts a send while the view is sending
\* or its input is empty after trimming, and no view ever has more than one
\* send in flight.
C20_OneSendInFlight ==
  [][/\ (chat.isLoading \/ Trim(chat.input) = "") =>
          Len(chat'.sends) <= Len(chat.sends)
     /\ Len(chat'.sends) <= 1
     /\ \A t \in Tabs :
          /\ (guest[t].isLoading \/ Trim(guest[t].input) = "") =>
               Len(guest'[t].sends) <= Len(guest[t].sends)
          /\ Len(guest'[t].sends) <= 1]_vars

\* C20 for the guest views alone
C20_OneGuestSendInFlight ==
  [][\A t \in Tabs :
       /\ (guest[t].isLoading \/ Trim(guest[t].input) = "") =>
            Len(guest'[t].sends) <= Len(guest[t].sends)
       /\ Len(guest'[t].sends) <= 1]_vars

\* C22: the message list a send of the authenticated view posts to
\* /api/chat/ai for thread T is the rows of thread T that the view held, in
\* created_at order, followed by the submitted user message once; no row of
\* another thread is in it, also when the send created its thread.
C22_OnlyMessagesOfTheThread ==
  \A i \in 1..Len(chat.sends) :
    LET send == chat.sends[i] IN
    send.pc \in {"fetchAi", "read"} =>
      /\ \A k \in 1..Len(send.dbMessages) :
           send.dbMessages[k].thread_id = send.threadId[1]
      /\ \A k \in 1..(Len(send.dbMessages) - 1) :
           send.dbMessages[k].id < send.dbMessages[k + 1].id
      /\ send.messages = Append(AsMessages(send.dbMessages),
                                Msg("user", send.userMessage))

\* the calls a send can have made, in the order it made them
SendOrders ==
  {<<"createThread">>, <<"createThread", "addMessage">>,
   <<"createThread", "addMessage", "ai">>,
   <<"addMessage">>, <<"addMessage", "ai">>}

\* C23: a send of the authenticated view calls createThread (only when
\* the view, as it was rendered when the send started, had no active
\* thread), then addMessage, then /api/chat/ai, in that order; it goes on to addMessage only in a step in which its thread
\* was created, and to /api/chat/ai only in a step in which its user
\* message was written: a send whose createThread or addMessage failed
\* ends without a request to /api/chat/ai.
C23_CreateThenAddThenAi ==
  [][/\ \A i \in 1..Len(chat'.sends) :
          LET send == chat'.sends[i] IN
          /\ send.steps \in SendOrders
          /\ send.pc = "createThread" <=> send.steps = <<"createThread">>
          /\ send.pc = "addMessage" <=> send.steps[Len(send.steps)] = "addMessage"
          /\ send.pc \in {"fetchAi", "read"} <=>
               send.steps[Len(send.steps)] = "ai"
     /\ Len(chat'.sends) = Len(chat.sends) + 1 =>
          LET send == chat'.sends[Len(chat'.sends)] IN
          send.steps = <<"createThread">> <=>
            chat.rendered.activeThreadId = Absent
     /\ Len(chat'.sends) = Len(chat.sends) =>
          \A i \in 1..Len(chat.sends) :
            LET before == chat.sends[i]
                after  == chat'.sends[i] IN
            before.steps # after.steps =>
              /\ after.steps = Append(before.steps,
                                      after.steps[Len(after.steps)])
              /\ after.steps[Len(after.steps)] = "addMessage" =>
                   /\ after.threadId # Absent
                   /\ chat_threads' = chat_threads \cup
                        {[id |-> after.threadId[1], user_id |-> ChatUser]}
                   /\ after.threadId[1] \notin ThreadIds
              /\ after.steps[Len(after.steps)] = "ai" =>
                   \E m \in chat_messages' \ chat_messages :
                     /\ m.thread_id = after.threadId[1]
                     /\ m.role = "user" /\ m.content = after.userMessage
     /\ Len(chat'.sends) < Len(chat.sends) =>
          chat_messages' = chat_messages /\ chat_threads' = chat_threads
    ]_vars

\* a send that created its thread and wrote its user message has called
\* /api/chat/ai; the other send of the view ended without writing one
C23_Witness ==
  /\ chat.issued = 2 /\ Len(chat.sends) = 1
  /\ chat.sends[1].steps = <<"createThread", "addMessage", "ai">>
  /\ Cardinality(chat_threads) = 2
  /\ Cardinality(chat_messages) = 1

\* C26: whenever the authenticated view holds streaming content, it is the
\* text a running completion has accumulated for the thread that is active;
\* after a switch to another thread no fragment of the stream of the
\* thread left behind is shown.
C26_StreamShownOnlyInItsThread ==
  chat.streamingContent # <<>> =>
    \E i \in 1..Len(chat.sends) :
      /\ chat.sends[i].pc = "read"
      /\ chat.sends[i].accumulated = chat.streamingContent
      /\ chat.sends[i].threadId = chat.activeThreadId

\* C27: the authenticated view never renders a reply twice: the message
\* list it shows never holds the synced assistant row of a completion
\* together with non-empty streaming content of that same completion.
C27_ReplyNotRenderedTwice ==
  \A i \in 1..Len(chat.sends) :
    ~ /\ ChatRendered
      /\ chat.sends[i].pc = "read"
      /\ chat.streamingContent # <<>>
      /\ chat.streamingContent = chat.sends[i].accumulated
      /\ chat.sends[i].savedId # Absent
      /\ \E k \in 1..Len(chat.rendered.dbMessages) :
           chat.rendered.dbMessages[k].id = chat.sends[i].savedId[1]

\* a view with a send in flight, and a view at rest
ChatSending == chat.sends # <<>>
ChatIdle ==
  chat.sends = <<>> /\ ~chat.isLoading /\ chat.streamingContent = <<>>
GuestSending(t) == guest[t].sends # <<>>
GuestIdle(t) ==
  /\ guest[t].sends = <<>> /\ ~guest[t].isLoading
  /\ guest[t].streamingContent = <<>>

\* C21: a view that has a send in flight comes back to idle, isLoading
\* false and the streaming content empty, however the send ends: by the end
\* of the stream, a non-OK status, or an exception; and a guest submit that
\* the limit check stops leaves the view idle in the same step.
C21_SendReturnsToIdle ==
  /\ ChatSending ~> ChatIdle
  /\ \A t \in Tabs : GuestSending(t) ~> GuestIdle(t)
  /\ [][\A t \in Tabs :
          (/\ guest'[t].last # guest[t].last
           /\ guest'[t].last.outcome = "prompt") =>
            /\ ~guest'[t].isLoading
            /\ guest'[t].streamingContent = <<>>
            /\ guest'[t].sends = guest[t].sends]_vars

\* the authenticated view is idle again after two sends, of which one got
\* its reply saved and the other ended before that
C21_Witness ==
  /\ chat.mounted /\ chat.issued = 2 /\ ChatIdle
  /\ Cardinality({m \in chat_messages : m.role = "assistant"}) = 1
  /\ Cardinality({m \in chat_messages : m.role = "user"}) = 2

\* the guest view is idle again after a send that ended normally and a
\* submit that the limit check stopped
C21_WitnessGuest ==
  \E t \in Tabs :
    /\ guest[t].mounted /\ GuestIdle(t)
    /\ guest[t].last.outcome = "prompt" /\ guestCalls.completed = 1

\* C25: whatever query parameters the client sends to GET
\* /api/chat-messages, its own table and where included, the forwarded
\* request carries exactly one table parameter, chat_messages, and exactly
\* one where parameter, the filter computed from the caller's thread ids;
\* the client's other parameters are carried over.
C25_ClientCannotReplaceFilter ==
  \A f \in electric :
    /\ SearchParamsGetAll(f.searchParams, "table")
         = <<Param("table", "chat_messages", Absent)>>
    /\ SearchParamsGetAll(f.searchParams, "where")
         = <<Param("where", "", WhereFilter(f.threadIds))>>
    /\ f.table = "chat_messages" /\ f.where = WhereFilter(f.threadIds)
    /\ \A m \in chat_messages :
         ShapeMatches(f, m) => m.thread_id \in f.threadIds

\* a request whose query named another table and a filter over every
\* thread, twice, was forwarded for a caller who owns a thread while a row
\* of another thread exists
C25_Witness ==
  \E r \in Reqs : \E f \in electric :
    /\ req[r].kind = "sync" /\ req[r].forwarded
    /\ Len(SearchParamsGetAll(req[r].query, "where")) = 2
    /\ Len(SearchParamsGetAll(req[r].query, "table")) = 1
    /\ f.threadIds # {}
    /\ \E m \in chat_messages : m.thread_id \notin f.threadIds

\* the stored counter as a step leaves it
StoredCountAfter ==
  ParseInt(IF localStorage' = Absent THEN <<"0">> ELSE localStorage')

\* C28: a step in which a guest completion ends normally raises the stored
\* counter by exactly one and appends to the view's message list one
\* assistant message holding all the text the send accumulated, after the
\* user message of that send; every other step, a failed send and a submit
\* stopped by the limit check included, leaves the stored counter alone.
C28_CounterCountsNormalEnds ==
  [][IF guestCalls'.completed # guestCalls.completed
       THEN /\ guestCalls'.completed = guestCalls.completed + 1
            /\ StoredCountAfter = getFreeRequestCount + 1
            /\ \E t \in Tabs : \E i \in 1..Len(guest[t].sends) :
                 LET send == guest[t].sends[i] IN
                 /\ send.pc = "read"
                 /\ guest'[t].sends = RemoveAt(guest[t].sends, i)
                 /\ guest'[t].guestMessages =
                      Append(guest[t].guestMessages,
                             Msg("assistant", send.accumulated))
                 /\ \E k \in 1..Len(guest[t].guestMessages) :
                      guest[t].guestMessages[k]
                        = send.messages[Len(send.messages)]
                 /\ guest'[t].freeRequestsUsed = StoredCountAfter
       ELSE /\ localStorage' = localStorage
            /\ \A t \in Tabs :
                 \/ ~guest'[t].mounted
                 \/ ~guest[t].mounted
                 \/ guest'[t].guestMessages = guest[t].guestMessages
                 \/ /\ Len(guest'[t].sends) = Len(guest[t].sends) + 1
                    /\ guest'[t].guestMessages =
                         Append(guest[t].guestMessages,
                                Msg("user", <<Trim(guest[t].rendered.input)>>))
    ]_vars

\* of two sends one ended normally after the whole reply and the other
\* ended without completing, and a later submit was stopped by the limit
\* check: the stored counter is one
C28_Witness ==
  /\ guestCalls.issued = 2 /\ guestCalls.completed = 1
  /\ getFreeRequestCount = 1
  /\ \E t \in Tabs :
       /\ guest[t].last.outcome = "prompt"
       /\ guest[t].sends = <<>>
       /\ \E k \in 1..Len(guest[t].guestMessages) :
            guest[t].guestMessages[k] = Msg("assistant", Reply)

\* C24: a getAuth call that returns builds a handle exactly when none was
\* cached or the resolved DATABASE_URL differs from the cached address;
\* otherwise it returns the handle that was cached, untouched.  A call that
\* throws leaves the cache alone.  After every call the cached address is
\* the one the cached handle was built with.
C24_BuildsIffNoneOrAddressChanged ==
  (call.pc = "done" /\ call.endpoint \in {"ai", "sync"}) =>
    /\ call.served =>
         /\ call.built <=>
              (\/ call.cacheBefore = Absent
               \/ call.urlBefore # ResolvedEnv(call.cf).DATABASE_URL)
         /\ ~call.built => call.returned = call.cacheBefore
         /\ call.built =>
              call.returned = Some(BuildAuth(ResolvedEnv(call.cf)))
         /\ call.returned = cachedAuth /\ cachedAuth # Absent
    /\ ~call.served =>
         cachedAuth = call.cacheBefore /\ cachedDbUrl = call.urlBefore
    /\ cachedAuth # Absent => cachedDbUrl = cachedAuth[1].database

\* a call rebuilt the handle because the resolved address differs from the
\* cached one
C24_Witness ==
  /\ call.pc = "done" /\ call.endpoint \in {"ai", "sync"}
  /\ call.served /\ call.built
  /\ call.cacheBefore # Absent
  /\ call.urlBefore # ResolvedEnv(call.cf).DATABASE_URL
  /\ call.returned # call.cacheBefore

\* a call found a handle cached for its address and got that handle back
C24_WitnessCached ==
  /\ call.pc = "done" /\ call.endpoint \in {"ai", "sync"}
  /\ call.served /\ ~call.built
  /\ call.cacheBefore # Absent
  /\ call.returned = call.cacheBefore

TypeOK ==
  /\ nextThreadId \in 1..(MaxThreads + 1)
  /\ \A t \in chat_threads : t.id \in 1..(nextThreadId - 1)
  /\ \A m \in chat_messages : m.id \in 1..(nextMessageId - 1)

====
